---- MODULE Spec2Model ----
(***************************************************************************)
(* Model of the leech bot's download core: bot/downloader.py               *)
(* (download_file), bot/handlers.py (handle_format_selection, its          *)
(* progress_callback and edit_status coroutine, the thread pool) and       *)
(* main.py (the event loop's life and cleanup_executor); of the rate       *)
(* limiter, bot/validators.py (check_rate_limit) as handle_message calls   *)
(* it; and of the pure function sanitize_filename.                         *)
(*                                                                         *)
(* A job is one invocation of handle_format_selection.  Its coroutine and  *)
(* the worker thread that runs download_file for it take turns, so one     *)
(* program counter pc[j] follows both.  Worker threads of different jobs   *)
(* and the coroutines of the event loop interleave at every system call    *)
(* and at every await.                                                     *)
(*                                                                         *)
(* Sizes are counted in units (one unit stands for a run of bytes); every  *)
(* unit a job receives is labelled with the job, so that a file holding    *)
(* another job's bytes, or a hole, differs from the job's own body.        *)
(***************************************************************************)
EXTENDS Integers, Sequences, FiniteSets, TLC

\* ---------------------------------------------------------------- bounds
NumJobs == 2       \* invocations of handle_format_selection
NumNames == 2      \* distinct resolved filenames in the temporary directory
MaxTotal == 3      \* largest declared Content-Length, in units
MaxBody == 3       \* largest body actually received, in units
MaxChunk == 2      \* largest chunk iter_content yields, in units
MaxClock == 2      \* clock ticks after the start before time stops advancing
NumPoolJobs == 4   \* requests submitted to the executor when its limit is exercised
NumUsers == 2      \* identities sending messages
NumMsgs == 3       \* messages handle_message is invoked for
TicksPerSecond == 2 \* resolution of the rate limiter's clock
MaxSeconds == 11   \* seconds the rate limiter is followed for
MaxInput == 6      \* longest string given to sanitize_filename
MaxUrl == 4        \* longest URL given to download_file

\* ------------------------------------------------------ program constants
max_workers == 3       \* ThreadPoolExecutor(max_workers=3)
MIN_EDIT_DELAY == 2    \* seconds between progress edits
MAX_FILE_SIZE == 2     \* settings.MAX_FILE_SIZE, scaled to units
REQUEST_COOLDOWN == 10 \* validators.REQUEST_COOLDOWN, seconds
FILENAME_MAX == 5      \* sanitize_filename: the limit 255, scaled
BASENAME_KEEP == 3     \* sanitize_filename: the 250 kept of the base name, scaled
StartTime == 5         \* time.time() when the bot starts (seconds since the epoch)

Jobs == 1..NumJobs
Users == 1..NumUsers
Msgs == 1..NumMsgs
Names == 1..NumNames
NoFile == 0
None == 0

\* HTTP statuses the main GET can end with.
Statuses == {200, 304, 403, 500}

VARIABLES
  pc,               \* pc[j]: where job j's handler / worker is
  name,             \* name[j]: filename resolved by download_file (local_path)
  total_size,       \* download_file: total_size
  received,         \* download_file: received
  last_percent,     \* download_file: last_percent
  current_percent,  \* download_file: percent passed to the running callback
  exc,              \* exception download_file or the handler is raising
  fd,               \* inode the job's open file object writes to (0: none)
  local_path,       \* handle_format_selection: local_path (0: None)
  reported,         \* history: percentages passed to progress_callback
  last_update_time, \* handlers.last_update_time[msg_key] (0: no entry)
  cb_time,          \* progress_callback: current_time
  passed,           \* history: events that passed the throttle (time was set)
  scheduled,        \* history: events whose edit_status was handed to the loop
  ready,            \* event loop: edit_status coroutines scheduled, not started
  inflight,         \* edit_status coroutines awaiting bot.edit_message_text
  delivered,        \* history: what took effect on the chat for job j, in order
  sent,             \* bytes the handler uploaded for job j
  path,             \* temporary directory: filename -> inode (0: no file)
  inode,            \* inode -> content
  loopState,        \* "running", "stopped" or "closed"
  executorState,    \* "open", "shutdown" or "drained"
  clock,            \* time.time()
  user_last_request, \* validators.user_last_request[user_id] (0: no entry)
  time_now,              \* time.time() as check_rate_limit reads it, in ticks
  msg,              \* handle_message of message m: position and local variables
  admitted,         \* history: times of the admitted requests of each user
  filename,         \* sanitize_filename: the argument of the first call
  sanitized,        \* history: results of the successive calls
  url,              \* download_file: url
  probe,            \* outcome of the HEAD probe and its Content-Disposition
  resolved,         \* download_file: filename, once resolved (<<>>: not yet)
  joined            \* download_file: local_path as path components (<<>>: not yet)

jobVars == <<pc, name, total_size, received, last_percent, current_percent,
             exc, fd, local_path, reported, sent>>
bridgeVars == <<last_update_time, cb_time, passed, scheduled, ready, inflight,
               delivered>>
fsVars == <<path, inode>>
envVars == <<loopState, executorState, clock>>
rateVars == <<user_last_request, time_now, msg, admitted>>
resolveVars == <<url, probe, resolved, joined>>
nameVars == <<filename, sanitized, resolveVars>>
vars == <<jobVars, bridgeVars, fsVars, envVars, rateVars, nameVars>>

\* ------------------------------------------------------------- helpers
RECURSIVE GCD(_, _)
GCD(a, b) == IF b = 0 THEN a ELSE GCD(b, a % b)

\* math.floor(received / total_size * 100), line 166.  The division and the
\* product are IEEE-754 doubles.  When received/total_size is exact in binary
\* the result is the integer floor.  Otherwise the rounded product lies within
\* a few ulp of the real one, which matters only when the real product is an
\* integer: then the double may land just below it and floor gives one less
\* (29/100*100 = 28.999999999999996).  That happens only for reduced
\* denominators 20, 25, 50 and 100; both outcomes are allowed for them.
FloorPercent(r, t) ==
  LET k == (r * 100) \div t
      d == t \div GCD(r, t)
  IN  IF (r * 100) % t = 0 /\ d \in {20, 25, 50, 100}
        THEN {k - 1, k}
        ELSE {k}

\* f.write(chunk) of n units by job j at the file object's offset off: a write
\* beyond the end of the file leaves a hole of zeros before it.
Max(a, b) == IF a > b THEN a ELSE b
WriteAt(content, off, n, j) ==
  [i \in 1..Max(Len(content), off + n) |->
     IF i > off /\ i <= off + n THEN j
     ELSE IF i <= Len(content) THEN content[i]
     ELSE 0]

\* An inode that no path names and no file object holds open is gone.
Collect(ino, pth, fds) ==
  [i \in DOMAIN ino |->
     IF (\E n \in Names : pth[n] = i) \/ (\E k \in DOMAIN fds : fds[k] = i)
       THEN ino[i] ELSE <<>>]

\* The bytes job j has received so far, in order.
BodyOf(j) == [i \in 1..received[j] |-> j]

\* States of pc[j] in which job j's download_file occupies a worker thread.
WorkerStates == {"head", "get", "open", "stream", "cb_throttle", "cb_check",
                 "cb_sched", "cb_return", "return", "except_exists",
                 "except_remove", "except_raise"}
Busy == {j \in DOMAIN pc : pc[j] \in WorkerStates}

\* ---------------------------------------------------------------- Init
\* The bot has started and no request has arrived: J is the set of requests
\* handle_format_selection will be invoked for.
DownloadInit(J) ==
  /\ pc = [j \in J |-> "idle"]
  /\ name = [j \in J |-> NoFile]
  /\ total_size = [j \in J |-> 0]
  /\ received = [j \in J |-> 0]
  /\ last_percent = [j \in J |-> -1]
  /\ current_percent = [j \in J |-> -1]
  /\ exc = [j \in J |-> "none"]
  /\ fd = [j \in J |-> NoFile]
  /\ local_path = [j \in J |-> None]
  /\ reported = [j \in J |-> <<>>]
  /\ sent = [j \in J |-> <<>>]
  /\ last_update_time = [j \in J |-> 0]
  /\ cb_time = [j \in J |-> 0]
  /\ passed = [j \in J |-> <<>>]
  /\ scheduled = [j \in J |-> <<>>]
  /\ ready = <<>>
  /\ inflight = {}
  /\ delivered = [j \in J |-> <<>>]
  /\ path = [n \in Names |-> NoFile]
  /\ inode = [i \in J |-> <<>>]
  /\ loopState = "running"
  /\ executorState = "open"
  /\ clock = StartTime

\* The rate limiter counts time in ticks of 1/TicksPerSecond second.
CooldownTicks == REQUEST_COOLDOWN * TicksPerSecond

\* time.time() when the first message can arrive: the seconds since the epoch,
\* which are more than one cooldown.
RateStart == CooldownTicks

\* handle_message has not been invoked for the message.
NoCall == [pc |-> "new", user_id |-> 0, is_allowed |-> FALSE, wait_time |-> 0]

\* validators.py line 12: user_last_request = {}.
RateInit ==
  /\ user_last_request = [u \in Users |-> 0]
  /\ time_now = RateStart
  /\ msg = [m \in Msgs |-> NoCall]
  /\ admitted = [u \in Users |-> <<>>]

\* sanitize_filename has not been called.
NameInit ==
  /\ filename = <<>>
  /\ sanitized = <<>>

\* No probe was made: the HEAD request of no job has been answered.
NoProbe == [kind |-> "none", capture |-> <<>>]

\* download_file has not resolved a filename.
ResolveInit ==
  /\ url = <<>>
  /\ probe = NoProbe
  /\ resolved = <<>>
  /\ joined = <<>>

Init == DownloadInit(Jobs) /\ RateInit /\ NameInit /\ ResolveInit

\* ---------------------------------------- handle_format_selection, part 1
\* Lines 86-141: answer the query, edit the status message to "Starting
\* download...", build progress_callback and submit download_file to the
\* executor.  The coroutine runs on the event loop.
HandleFormatSelection(j) ==
  /\ pc[j] = "idle"
  /\ loopState = "running"
  /\ executorState = "open"
  /\ pc' = [pc EXCEPT ![j] = "queued"]
  /\ delivered' = [delivered EXCEPT ![j] = Append(@, [kind |-> "starting", percent |-> 0])]
  /\ UNCHANGED <<name, total_size, received, last_percent, current_percent, exc,
                 fd, local_path, reported, sent, last_update_time, cb_time, passed,
                 scheduled, ready, inflight, fsVars, envVars, rateVars, nameVars>>

\* A pool that starts a thread for every submitted job, whatever max_workers.
WorkerStartAnyway(j) ==
  /\ pc[j] = "queued"
  /\ pc' = [pc EXCEPT ![j] = "head"]
  /\ UNCHANGED <<name, total_size, received, last_percent, current_percent, exc,
                 fd, local_path, reported, sent, bridgeVars, fsVars, envVars, rateVars, nameVars>>

\* ThreadPoolExecutor: a queued job starts when one of the max_workers threads
\* is free.
WorkerStart(j) ==
  /\ pc[j] = "queued"
  /\ Cardinality(Busy) < max_workers
  /\ pc' = [pc EXCEPT ![j] = "head"]
  /\ UNCHANGED <<name, total_size, received, last_percent, current_percent, exc,
                 fd, local_path, reported, sent, bridgeVars, fsVars, envVars, rateVars, nameVars>>

\* ------------------------------------------------------- download_file
\* Lines 108-136, the HEAD probe answered: the filename comes from the
\* Content-Disposition header or from the URL (n), total_size from
\* Content-Length (cl, 0 when the header is absent).
HeadOk(j, n, cl) ==
  /\ pc[j] = "head"
  /\ pc' = [pc EXCEPT ![j] = "get"]
  /\ name' = [name EXCEPT ![j] = n]
  /\ total_size' = [total_size EXCEPT ![j] = cl]
  /\ UNCHANGED <<received, last_percent, current_percent, exc, fd, local_path,
                 reported, sent, bridgeVars, fsVars, envVars, rateVars, nameVars>>

\* Lines 126-129: the probe raised a RequestException; the URL-derived name n
\* is used and total_size is 0.
HeadFails(j, n) ==
  /\ pc[j] = "head"
  /\ pc' = [pc EXCEPT ![j] = "get"]
  /\ name' = [name EXCEPT ![j] = n]
  /\ total_size' = [total_size EXCEPT ![j] = 0]
  /\ UNCHANGED <<received, last_percent, current_percent, exc, fd, local_path,
                 reported, sent, bridgeVars, fsVars, envVars, rateVars, nameVars>>

\* Line 122: int() of a Content-Length that is not a number raises ValueError,
\* which "except requests.exceptions.RequestException" does not catch:
\* download_file ends before local_path is computed.
HeadBadLength(j) ==
  /\ pc[j] = "head"
  /\ pc' = [pc EXCEPT ![j] = "raised"]
  /\ exc' = [exc EXCEPT ![j] = "ValueError"]
  /\ UNCHANGED <<name, total_size, received, last_percent, current_percent, fd,
                 local_path, reported, sent, bridgeVars, fsVars, envVars, rateVars, nameVars>>

\* response.raise_for_status(): HTTPError for 4xx and 5xx only.
RaisesForStatus(status) == status >= 400 /\ status < 600

\* Lines 140-156, the GET answered with a status and Content-Length cl.
GetResponse(j, status, cl) ==
  /\ pc[j] = "get"
  /\ IF RaisesForStatus(status)
       THEN /\ pc' = [pc EXCEPT ![j] = "except_exists"]
            /\ exc' = [exc EXCEPT ![j] = "HTTPError"]
            /\ UNCHANGED <<total_size, received, last_percent>>
       ELSE /\ pc' = [pc EXCEPT ![j] = "open"]
            /\ total_size' = [total_size EXCEPT ![j] = IF @ = 0 THEN cl ELSE @]
            /\ received' = [received EXCEPT ![j] = 0]
            /\ last_percent' = [last_percent EXCEPT ![j] = -1]
            /\ UNCHANGED exc
  /\ UNCHANGED <<name, current_percent, fd, local_path, reported, sent,
                 bridgeVars, fsVars, envVars, rateVars, nameVars>>

\* Lines 140-145 and 159: the request or the body stream raises Timeout,
\* ConnectionError or another RequestException.
TransferErrors == {"Timeout", "ConnectionError", "RequestException"}
TransferFails(j, e) ==
  /\ pc[j] \in {"get", "stream"}
  /\ pc' = [pc EXCEPT ![j] = "except_exists"]
  /\ exc' = [exc EXCEPT ![j] = e]
  /\ fd' = [fd EXCEPT ![j] = NoFile]
  /\ inode' = Collect(inode, path, fd')
  /\ UNCHANGED <<name, total_size, received, last_percent, current_percent,
                 local_path, reported, sent, bridgeVars, path, envVars, rateVars, nameVars>>

\* Line 152: the GET's Content-Length is not a number; ValueError is caught by
\* no except clause of download_file.
GetBadLength(j) ==
  /\ pc[j] = "get"
  /\ total_size[j] = 0
  /\ pc' = [pc EXCEPT ![j] = "raised"]
  /\ exc' = [exc EXCEPT ![j] = "ValueError"]
  /\ UNCHANGED <<name, total_size, received, last_percent, current_percent, fd,
                 local_path, reported, sent, bridgeVars, fsVars, envVars, rateVars, nameVars>>

\* Line 158: open(local_path, 'wb') creates the file, or truncates the file
\* that is at the path already; the file object writes from offset 0.
OpenFile(j) ==
  /\ pc[j] = "open"
  /\ pc' = [pc EXCEPT ![j] = "stream"]
  /\ IF path[name[j]] = NoFile
       THEN /\ path' = [path EXCEPT ![name[j]] = j]
            /\ inode' = [inode EXCEPT ![j] = <<>>]
            /\ fd' = [fd EXCEPT ![j] = j]
       ELSE /\ inode' = [inode EXCEPT ![path[name[j]]] = <<>>]
            /\ fd' = [fd EXCEPT ![j] = path[name[j]]]
            /\ UNCHANGED path
  /\ UNCHANGED <<name, total_size, received, last_percent, current_percent, exc,
                 local_path, reported, sent, bridgeVars, envVars, rateVars, nameVars>>

\* Lines 158 and 161: open or write raises OSError (disk full, no permission).
\* Leaving the with block closes the file object.
WriteFails(j) ==
  /\ pc[j] \in {"open", "stream"}
  /\ pc' = [pc EXCEPT ![j] = "except_exists"]
  /\ exc' = [exc EXCEPT ![j] = "OSError"]
  /\ fd' = [fd EXCEPT ![j] = NoFile]
  /\ inode' = Collect(inode, path, fd')
  /\ UNCHANGED <<name, total_size, received, last_percent, current_percent,
                 local_path, reported, sent, bridgeVars, path, envVars, rateVars, nameVars>>

\* Lines 159-169, one chunk of n units: write it, count it and compute the
\* percentage; the callback is called only for a percentage above the last.
\* (The file object's buffer is not modelled: a write reaches the file at once.)
RecvChunk(j, n) ==
  /\ pc[j] = "stream"
  /\ received[j] + n <= MaxBody
  /\ inode' = [inode EXCEPT ![fd[j]] = WriteAt(@, received[j], n, j)]
  /\ received' = [received EXCEPT ![j] = @ + n]
  /\ IF total_size[j] > 0
       THEN \E p \in FloorPercent(received'[j], total_size[j]) :
              IF p > last_percent[j]
                THEN /\ current_percent' = [current_percent EXCEPT ![j] = p]
                     /\ reported' = [reported EXCEPT ![j] = Append(@, p)]
                     /\ pc' = [pc EXCEPT ![j] = "cb_throttle"]
                ELSE UNCHANGED <<current_percent, reported, pc>>
       ELSE UNCHANGED <<current_percent, reported, pc>>
  /\ UNCHANGED <<name, total_size, last_percent, exc, fd, local_path, sent,
                 bridgeVars, path, envVars, rateVars, nameVars>>

\* A final callback made whatever the total size.
FinalCallbackAlways(total, last) == last < 100

\* Line 172: progress_callback and total_size > 0 and last_percent < 100 (the
\* handler always passes a callback).
FinalCallback(total, last) == total > 0 /\ last < 100

\* Lines 170-176, the body ended: the with block closes the file; a last
\* callback with 100 is made when total_size > 0 and last_percent < 100.
StreamEnd(j) ==
  /\ pc[j] = "stream"
  /\ fd' = [fd EXCEPT ![j] = NoFile]
  /\ inode' = Collect(inode, path, fd')
  /\ IF FinalCallback(total_size[j], last_percent[j])
       THEN /\ current_percent' = [current_percent EXCEPT ![j] = 100]
            /\ reported' = [reported EXCEPT ![j] = Append(@, 100)]
            /\ pc' = [pc EXCEPT ![j] = "cb_throttle"]
       ELSE /\ pc' = [pc EXCEPT ![j] = "return"]
            /\ UNCHANGED <<current_percent, reported>>
  /\ UNCHANGED <<name, total_size, received, last_percent, exc, local_path, sent,
                 bridgeVars, path, envVars, rateVars, nameVars>>

\* ---------------------------------------------------- progress_callback
\* Lines 107-112: the throttle.  A suppressed event returns at once.
\* A slip in the comparison: an event exactly MIN_EDIT_DELAY after the last one
\* is suppressed too.
SuppressedLate(now, last, percent) == now - last <= MIN_EDIT_DELAY /\ percent < 100

Suppressed(now, last, percent) == now - last < MIN_EDIT_DELAY /\ percent < 100

Event(p, t) == [percent |-> p, time |-> t]

CbThrottle(j) ==
  /\ pc[j] = "cb_throttle"
  /\ cb_time' = [cb_time EXCEPT ![j] = clock]
  /\ IF Suppressed(clock, last_update_time[j], current_percent[j])
       THEN /\ pc' = [pc EXCEPT ![j] = "cb_return"]
            /\ UNCHANGED <<last_update_time, passed>>
       ELSE /\ pc' = [pc EXCEPT ![j] = "cb_check"]
            /\ last_update_time' = [last_update_time EXCEPT ![j] = clock]
            /\ passed' = [passed EXCEPT ![j] = Append(@, Event(current_percent[j], clock))]
  /\ UNCHANGED <<name, total_size, received, last_percent, current_percent, exc,
                 fd, local_path, reported, sent, scheduled, ready, inflight,
                 delivered, fsVars, envVars, rateVars, nameVars>>

\* Line 130: if loop.is_running().
CbCheck(j) ==
  /\ pc[j] = "cb_check"
  /\ pc' = [pc EXCEPT ![j] = IF loopState = "running" THEN "cb_sched" ELSE "cb_return"]
  /\ UNCHANGED <<name, total_size, received, last_percent, current_percent, exc,
                 fd, local_path, reported, sent, bridgeVars, fsVars, envVars, rateVars, nameVars>>

\* Line 131: asyncio.run_coroutine_threadsafe(edit_status(), loop) hands the
\* coroutine to loop.call_soon_threadsafe, which raises RuntimeError("Event
\* loop is closed") on a closed loop and otherwise queues it, whether or not
\* the loop is still running.  The RuntimeError leaves progress_callback and
\* download_file, none of whose except clauses catches it; the with block
\* closes the file on the way out.
CbSchedule(j) ==
  /\ pc[j] = "cb_sched"
  /\ IF loopState = "closed"
       THEN /\ pc' = [pc EXCEPT ![j] = "raised"]
            /\ exc' = [exc EXCEPT ![j] = "RuntimeError"]
            /\ fd' = [fd EXCEPT ![j] = NoFile]
            /\ inode' = Collect(inode, path, fd')
            /\ UNCHANGED <<ready, scheduled>>
       ELSE /\ pc' = [pc EXCEPT ![j] = "cb_return"]
            /\ ready' = Append(ready, <<j, current_percent[j]>>)
            /\ scheduled' = [scheduled EXCEPT ![j] =
                               Append(@, Event(current_percent[j], cb_time[j]))]
            /\ UNCHANGED <<exc, fd, inode>>
  /\ UNCHANGED <<name, total_size, received, last_percent, current_percent,
                 local_path, reported, sent, last_update_time, cb_time, passed,
                 inflight, delivered, path, envVars, rateVars, nameVars>>

\* progress_callback returned (its current_time is gone): line 169
\* (last_percent = current_percent) in the loop, or line 175 after the final
\* callback, when the file is closed.
CbReturn(j) ==
  /\ pc[j] = "cb_return"
  /\ cb_time' = [cb_time EXCEPT ![j] = 0]
  /\ IF fd[j] # NoFile
       THEN /\ last_percent' = [last_percent EXCEPT ![j] = current_percent[j]]
            /\ pc' = [pc EXCEPT ![j] = "stream"]
       ELSE /\ pc' = [pc EXCEPT ![j] = "return"]
            /\ UNCHANGED last_percent
  /\ UNCHANGED <<name, total_size, received, current_percent, exc, fd,
                 local_path, reported, sent, last_update_time, passed, scheduled,
                 ready, inflight, delivered, fsVars, envVars, rateVars, nameVars>>

\* Line 176: return local_path.  The worker is free; the handler's await
\* resumes on the event loop.
Return(j) ==
  /\ pc[j] = "return"
  /\ pc' = [pc EXCEPT ![j] = "returned"]
  /\ UNCHANGED <<name, total_size, received, last_percent, current_percent, exc,
                 fd, local_path, reported, sent, bridgeVars, fsVars, envVars, rateVars, nameVars>>

\* Lines 178-210, every except clause alike: os.path.exists(local_path) ...
ExceptExists(j) ==
  /\ pc[j] = "except_exists"
  /\ pc' = [pc EXCEPT ![j] = IF path[name[j]] # NoFile THEN "except_remove"
                                                      ELSE "except_raise"]
  /\ UNCHANGED <<name, total_size, received, last_percent, current_percent, exc,
                 fd, local_path, reported, sent, bridgeVars, fsVars, envVars, rateVars, nameVars>>

\* ... os.remove(local_path), which raises FileNotFoundError out of the except
\* clause when the file has gone since the test ...
ExceptRemove(j) ==
  /\ pc[j] = "except_remove"
  /\ IF path[name[j]] # NoFile
       THEN /\ path' = [path EXCEPT ![name[j]] = NoFile]
            /\ inode' = Collect(inode, path', fd)
            /\ pc' = [pc EXCEPT ![j] = "except_raise"]
            /\ UNCHANGED exc
       ELSE /\ pc' = [pc EXCEPT ![j] = "raised"]
            /\ exc' = [exc EXCEPT ![j] = "FileNotFoundError"]
            /\ UNCHANGED <<path, inode>>
  /\ UNCHANGED <<name, total_size, received, last_percent, current_percent, fd,
                 local_path, reported, sent, bridgeVars, envVars, rateVars, nameVars>>

\* ... and the raise of the translated exception: download_file returns to
\* its caller by raising.  exc keeps the kind that was caught; the caller sees
\* Translated(exc).
Translated(e) ==
  CASE e = "Timeout" -> "TimeoutError"
    [] e = "HTTPError" -> "ValueError"
    [] e = "ConnectionError" -> "ConnectionError"
    [] e = "RequestException" -> "RuntimeError"
    [] e = "OSError" -> "OSError"
    [] OTHER -> e

ExceptRaise(j) ==
  /\ pc[j] = "except_raise"
  /\ pc' = [pc EXCEPT ![j] = "raised"]
  /\ UNCHANGED <<name, total_size, received, last_percent, current_percent, exc,
                 fd, local_path, reported, sent, bridgeVars, fsVars, envVars, rateVars, nameVars>>

\* ---------------------------------------- handle_format_selection, part 2
Effect(k, p) == [kind |-> k, percent |-> p]

\* The loop runs its callbacks in the order they were handed to it: the
\* edit_status coroutines a job scheduled before download_file ended are
\* started before the handler's await resumes.
NoneReady(j) == \A i \in 1..Len(ready) : ready[i][1] # j

\* Lines 136-145: the await returns download_file's path and the handler asks
\* os.path.getsize(local_path), which raises FileNotFoundError when no file is
\* at the path.
GetSize(j) ==
  /\ pc[j] = "returned"
  /\ loopState = "running"
  /\ NoneReady(j)
  /\ local_path' = [local_path EXCEPT ![j] = name[j]]
  /\ IF path[name[j]] = NoFile
       THEN /\ pc' = [pc EXCEPT ![j] = "h_except"]
            /\ exc' = [exc EXCEPT ![j] = "FileNotFoundError"]
       ELSE /\ pc' = [pc EXCEPT ![j] =
                        IF Len(inode[path[name[j]]]) > MAX_FILE_SIZE
                          THEN "h_toolarge" ELSE "h_complete"]
            /\ UNCHANGED exc
  /\ UNCHANGED <<name, total_size, received, last_percent, current_percent, fd,
                 reported, sent, bridgeVars, fsVars, envVars, rateVars, nameVars>>

\* Lines 146-151: the "File too large" edit takes effect; return.
EditTooLarge(j) ==
  /\ pc[j] = "h_toolarge"
  /\ loopState = "running"
  /\ delivered' = [delivered EXCEPT ![j] = Append(@, Effect("too_large", 0))]
  /\ pc' = [pc EXCEPT ![j] = "finally_exists"]
  /\ UNCHANGED <<name, total_size, received, last_percent, current_percent, exc,
                 fd, local_path, reported, sent, last_update_time, cb_time, passed,
                 scheduled, ready, inflight, fsVars, envVars, rateVars, nameVars>>

\* Lines 153-157: the "Download complete" edit takes effect.
EditComplete(j) ==
  /\ pc[j] = "h_complete"
  /\ loopState = "running"
  /\ delivered' = [delivered EXCEPT ![j] = Append(@, Effect("complete", 0))]
  /\ pc' = [pc EXCEPT ![j] = "upload"]
  /\ UNCHANGED <<name, total_size, received, last_percent, current_percent, exc,
                 fd, local_path, reported, sent, last_update_time, cb_time, passed,
                 scheduled, ready, inflight, fsVars, envVars, rateVars, nameVars>>

\* Lines 160-171: open(local_path, "rb") and send the file to the dump channel.
Upload(j) ==
  /\ pc[j] = "upload"
  /\ loopState = "running"
  /\ IF path[name[j]] = NoFile
       THEN /\ pc' = [pc EXCEPT ![j] = "h_except"]
            /\ exc' = [exc EXCEPT ![j] = "FileNotFoundError"]
            /\ UNCHANGED sent
       ELSE /\ pc' = [pc EXCEPT ![j] = "h_deliver"]
            /\ sent' = [sent EXCEPT ![j] = inode[path[name[j]]]]
            /\ UNCHANGED exc
  /\ UNCHANGED <<name, total_size, received, last_percent, current_percent, fd,
                 local_path, reported, bridgeVars, fsVars, envVars, rateVars, nameVars>>

\* Lines 176-187: reply to the user with the file id; the "Done!" edit.
Deliver(j) ==
  /\ pc[j] = "h_deliver"
  /\ loopState = "running"
  /\ delivered' = [delivered EXCEPT ![j] = Append(@, Effect("done", 0))]
  /\ pc' = [pc EXCEPT ![j] = "finally_exists"]
  /\ UNCHANGED <<name, total_size, received, last_percent, current_percent, exc,
                 fd, local_path, reported, sent, last_update_time, cb_time, passed,
                 scheduled, ready, inflight, fsVars, envVars, rateVars, nameVars>>

\* A Telegram call of the handler raises RetryAfter or another TelegramError.
TelegramFails(j) ==
  /\ pc[j] \in {"h_toolarge", "h_complete", "upload", "h_deliver"}
  /\ loopState = "running"
  /\ pc' = [pc EXCEPT ![j] = "h_except"]
  /\ exc' = [exc EXCEPT ![j] = "TelegramError"]
  /\ UNCHANGED <<name, total_size, received, last_percent, current_percent, fd,
                 local_path, reported, sent, bridgeVars, fsVars, envVars, rateVars, nameVars>>

\* Lines 189-207: every except clause replies with an error text.  The
\* exception is the one download_file raised through the await or one raised in
\* the handler.
HandlerExcept(j) ==
  /\ pc[j] \in {"raised", "h_except"}
  /\ loopState = "running"
  /\ NoneReady(j)
  /\ delivered' = [delivered EXCEPT ![j] = Append(@, Effect("error", 0))]
  /\ pc' = [pc EXCEPT ![j] = "finally_exists"]
  /\ UNCHANGED <<name, total_size, received, last_percent, current_percent, exc,
                 fd, local_path, reported, sent, last_update_time, cb_time, passed,
                 scheduled, ready, inflight, fsVars, envVars, rateVars, nameVars>>

\* Line 211: if local_path and os.path.exists(local_path).
FinallyExists(j) ==
  /\ pc[j] = "finally_exists"
  /\ loopState = "running"
  /\ pc' = [pc EXCEPT ![j] =
              IF local_path[j] # None /\ path[local_path[j]] # NoFile
                THEN "finally_remove" ELSE "finally_pop"]
  /\ UNCHANGED <<name, total_size, received, last_percent, current_percent, exc,
                 fd, local_path, reported, sent, bridgeVars, fsVars, envVars, rateVars, nameVars>>

\* Lines 212-216: os.remove(local_path); an OSError is logged and dropped.
FinallyRemove(j) ==
  /\ pc[j] = "finally_remove"
  /\ loopState = "running"
  /\ path' = [path EXCEPT ![local_path[j]] = NoFile]
  /\ inode' = Collect(inode, path', fd)
  /\ pc' = [pc EXCEPT ![j] = "finally_pop"]
  /\ UNCHANGED <<name, total_size, received, last_percent, current_percent, exc,
                 fd, local_path, reported, sent, bridgeVars, envVars, rateVars, nameVars>>

\* Line 219: clear the user data; the handler is finished.
FinallyPop(j) ==
  /\ pc[j] = "finally_pop"
  /\ loopState = "running"
  /\ pc' = [pc EXCEPT ![j] = "done"]
  /\ UNCHANGED <<name, total_size, received, last_percent, current_percent, exc,
                 fd, local_path, reported, sent, bridgeVars, fsVars, envVars, rateVars, nameVars>>

\* ------------------------------------------------------- edit_status
\* The event loop starts the oldest scheduled edit_status coroutine, which
\* runs to its await of bot.edit_message_text (lines 114-124).
EditStart ==
  /\ loopState = "running"
  /\ ready # <<>>
  /\ inflight' = inflight \cup {Head(ready)}
  /\ ready' = Tail(ready)
  /\ UNCHANGED <<jobVars, last_update_time, cb_time, passed, scheduled, delivered,
                 fsVars, envVars, rateVars, nameVars>>

\* The edit of one awaiting coroutine takes effect on the status message.
EditApply(e) ==
  /\ e \in inflight
  /\ inflight' = inflight \ {e}
  /\ delivered' = [delivered EXCEPT ![e[1]] = Append(@, Effect("progress", e[2]))]
  /\ UNCHANGED <<jobVars, last_update_time, cb_time, passed, scheduled, ready,
                 fsVars, envVars, rateVars, nameVars>>

\* Lines 125-128: the edit raises RetryAfter or TelegramError; it is dropped.
EditFails(e) ==
  /\ e \in inflight
  /\ inflight' = inflight \ {e}
  /\ UNCHANGED <<jobVars, last_update_time, cb_time, passed, scheduled, ready,
                 delivered, fsVars, envVars, rateVars, nameVars>>

\* ------------------------------------------------------------- main.py
\* time.time() advances.
Tick ==
  /\ clock < StartTime + MaxClock
  /\ clock' = clock + 1
  /\ UNCHANGED <<rateVars, nameVars, jobVars, bridgeVars, fsVars, loopState, executorState>>

\* Lines 29-32: run_polling ends (KeyboardInterrupt or a stop signal): the
\* event loop stops running ...
LoopStop ==
  /\ loopState = "running"
  /\ loopState' = "stopped"
  /\ UNCHANGED <<rateVars, nameVars, jobVars, bridgeVars, fsVars, executorState, clock>>

\* ... and run_polling closes it before it returns.
LoopClose ==
  /\ loopState = "stopped"
  /\ loopState' = "closed"
  /\ UNCHANGED <<rateVars, nameVars, jobVars, bridgeVars, fsVars, executorState, clock>>

\* Lines 33-36 and cleanup_executor: executor.shutdown(wait=True,
\* cancel_futures=False) ...
CleanupExecutor ==
  /\ loopState = "closed"
  /\ executorState = "open"
  /\ executorState' = "shutdown"
  /\ UNCHANGED <<rateVars, nameVars, jobVars, bridgeVars, fsVars, loopState, clock>>

\* shutdown(wait=False): the call returns without joining the worker threads.
ShutdownReturnsAtOnce ==
  /\ executorState = "shutdown"
  /\ executorState' = "drained"
  /\ UNCHANGED <<rateVars, nameVars, jobVars, bridgeVars, fsVars, loopState, clock>>

\* ... returns when no submitted job is queued or running.
ShutdownReturns ==
  /\ executorState = "shutdown"
  /\ \A j \in DOMAIN pc : pc[j] # "queued" /\ pc[j] \notin WorkerStates
  /\ executorState' = "drained"
  /\ UNCHANGED <<rateVars, nameVars, jobVars, bridgeVars, fsVars, loopState, clock>>

\* --------------------------------------------- downloader.sanitize_filename
\* Characters, one for each class the function tells apart: an ordinary
\* character, the dot, the space, and of the characters of
\* [<>:"/\\|?*\x00-\x1f] the two path separators and, in a URL, the question
\* mark.
Chars == {"a", ".", " ", "/", "\\"}
Illegal == {"/", "\\", "?"}
Inputs == UNION {[1..n -> Chars] : n \in 0..MaxInput}

\* A pattern that leaves the backslash out.
SubstituteSlashOnly(s) ==
  [i \in 1..Len(s) |-> IF s[i] \in Illegal \ {"\\"} THEN "_" ELSE s[i]]

\* Line 28: re.sub(r'[<>:"/\\|?*\x00-\x1f]', '_', filename).
Substitute(s) == [i \in 1..Len(s) |-> IF s[i] \in Illegal THEN "_" ELSE s[i]]

\* Line 31: filename.strip('. ').
RECURSIVE LStrip(_)
LStrip(s) == IF s # <<>> /\ Head(s) \in {".", " "} THEN LStrip(Tail(s)) ELSE s
RECURSIVE RStrip(_)
RStrip(s) ==
  IF s # <<>> /\ s[Len(s)] \in {".", " "} THEN RStrip(SubSeq(s, 1, Len(s) - 1)) ELSE s
Strip(s) == RStrip(LStrip(s))

\* Line 35: "downloaded_file", as one ordinary character.
DefaultName == <<"d">>

\* The last position of character c in s (0: none).
LastIndex(s, c) ==
  LET at == {i \in 1..Len(s) : s[i] = c}
  IN  IF at = {} THEN 0 ELSE CHOOSE i \in at : \A k \in at : k <= i

\* Line 39: os.path.splitext splits at the last dot, when that dot comes after
\* the last separator and some character between them is not a dot.
splitext(s) ==
  LET dot == LastIndex(s, ".")
      sep == LastIndex(s, "/")
  IN  IF dot > sep /\ (\E i \in (sep + 1)..(dot - 1) : s[i] # ".")
        THEN [name |-> SubSeq(s, 1, dot - 1), ext |-> SubSeq(s, dot, Len(s))]
        ELSE [name |-> s, ext |-> <<>>]

\* name[:n].
Prefix(s, n) == SubSeq(s, 1, IF Len(s) < n THEN Len(s) ELSE n)

\* Lines 22-42.
sanitize_filename(s) ==
  LET stripped == Strip(Substitute(s))
      nonempty == IF stripped = <<>> THEN DefaultName ELSE stripped
  IN  IF Len(nonempty) > FILENAME_MAX
        THEN Prefix(splitext(nonempty).name, BASENAME_KEEP) \o splitext(nonempty).ext
        ELSE nonempty

\* sanitize_filename(filename) is called ...
Sanitize ==
  /\ sanitized = <<>>
  /\ sanitized' = <<sanitize_filename(filename)>>
  /\ UNCHANGED <<filename, resolveVars, rateVars, jobVars, bridgeVars, fsVars,
                 envVars>>

\* ... and called again on its own result.
SanitizeAgain ==
  /\ Len(sanitized) = 1
  /\ sanitized' = Append(sanitized, sanitize_filename(sanitized[1]))
  /\ UNCHANGED <<filename, resolveVars, rateVars, jobVars, bridgeVars, fsVars,
                 envVars>>

\* ------------------------------------- download_file: the local path
\* str.split: the pieces of s between the characters of seps.
RECURSIVE Split(_, _)
Split(s, seps) ==
  LET at == {i \in 1..Len(s) : s[i] \in seps}
  IN  IF at = {} THEN <<s>>
      ELSE LET i == CHOOSE k \in at : \A m \in at : k <= m
           IN  <<SubSeq(s, 1, i - 1)>> \o Split(SubSeq(s, i + 1, Len(s)), seps)

\* Lines 45-58, extract_filename_from_url: the text after the last '/', up to
\* its first '?'; "downloaded_file" when that is empty; sanitized.
extract_filename_from_url(u) ==
  LET last == Split(u, {"/"})[Len(Split(u, {"/"}))]
      bare == Head(Split(last, {"?"}))
  IN  sanitize_filename(IF bare = <<>> THEN DefaultName ELSE bare)

\* Lines 61-79, extract_filename_from_headers: None (here <<>>) when there is
\* no Content-Disposition or the pattern of line 71 finds no filename in it;
\* otherwise the sanitized capture in a one-element sequence.  The capture is
\* taken as the response gives it, after the removal of an encoding prefix
\* (lines 75-76), which can leave it empty.
extract_filename_from_headers(p) ==
  IF p.kind = "named" THEN <<sanitize_filename(p.capture)>> ELSE <<>>

\* Lines 116-119 and 126-128: the name from the headers unless the probe
\* failed or that name is None or empty, else the name from the URL.
ResolvedName(u, p) ==
  LET named == extract_filename_from_headers(p)
  IN  IF p.kind = "failed" \/ named = <<>> \/ named[1] = <<>>
        THEN extract_filename_from_url(u)
        ELSE named[1]

\* tempfile.gettempdir(), as path components.
TempDir == << <<"t">> >>

\* The directory a path reaches from dir through the components parts: empty
\* and '.' components stay, '..' goes to the parent.
RECURSIVE Walk(_, _)
Walk(dir, parts) ==
  IF parts = <<>> THEN dir
  ELSE LET c == Head(parts)
           next == IF c = <<>> \/ c = <<".">> THEN dir
                   ELSE IF c = <<".", ".">>
                     THEN SubSeq(dir, 1, IF dir = <<>> THEN 0 ELSE Len(dir) - 1)
                     ELSE Append(dir, c)
       IN  Walk(next, Tail(parts))

\* Line 133, os.path.join(temp_dir, filename), as the components of the file
\* the path names: a filename that starts with a separator replaces temp_dir.
\* Both '/' and '\' separate components (the second on Windows).
path_join(dir, f) ==
  Walk(IF f # <<>> /\ f[1] \in {"/", "\\"} THEN <<>> ELSE dir, Split(f, {"/", "\\"}))

\* Lines 108-129: the probe is made and the filename resolved.
ResolveFilename ==
  /\ resolved = <<>>
  /\ resolved' = <<ResolvedName(url, probe)>>
  /\ UNCHANGED <<url, probe, joined, filename, sanitized, rateVars, jobVars,
                 bridgeVars, fsVars, envVars>>

\* Lines 132-133: local_path = os.path.join(temp_dir, filename).
JoinPath ==
  /\ resolved # <<>>
  /\ joined = <<>>
  /\ joined' = <<path_join(TempDir, resolved[1])>>
  /\ UNCHANGED <<url, probe, resolved, filename, sanitized, rateVars, jobVars,
                 bridgeVars, fsVars, envVars>>

\* ------------------------------------------------------- validators.py
\* check_rate_limit, lines 76-87, at time t for a user whose stored time is
\* last (0 from user_last_request.get(user_id, 0) when there is no entry).
\* Line 80: time_passed < REQUEST_COOLDOWN.
Limited(t, last) == t - last < CooldownTicks

\* Line 81: int(REQUEST_COOLDOWN - time_passed) truncates the seconds that
\* remain, which are positive when the call is limited.
WaitTime(t, last) == (CooldownTicks - (t - last)) \div TicksPerSecond

\* A limiter that admits without recording.
RecordNothing(m, u, t) == m

\* A limiter that stamps every identity.
RecordForAll(m, u, t) == [v \in DOMAIN m |-> t]

\* Line 86: user_last_request[user_id] = current_time.
Record(m, u, t) == [m EXCEPT ![u] = t]

\* The time of user u's last admitted request (0: none yet).
LastAdmitted(u) == IF admitted[u] = <<>> THEN 0 ELSE admitted[u][Len(admitted[u])]

\* handle_message, lines 48-66, for message m from user u: from its start to
\* its first await the coroutine runs without yielding the event loop, so
\* is_valid_url and the whole of check_rate_limit are one step.  Messages are
\* handled in the order they arrive.
HandleMessage(m, u, valid) ==
  /\ msg[m].pc = "new"
  /\ \A k \in Msgs : k < m => msg[k].pc # "new"
  /\ loopState = "running"
  /\ IF ~valid
       THEN /\ msg' = [msg EXCEPT ![m] = [NoCall EXCEPT !.pc = "reply_invalid",
                                                          !.user_id = u]]
            /\ UNCHANGED <<user_last_request, admitted>>
       ELSE IF Limited(time_now, user_last_request[u])
         THEN /\ msg' = [msg EXCEPT ![m] =
                          [pc |-> "reply_wait", user_id |-> u, is_allowed |-> FALSE,
                           wait_time |-> WaitTime(time_now, user_last_request[u])]]
              /\ UNCHANGED <<user_last_request, admitted>>
         ELSE /\ msg' = [msg EXCEPT ![m] =
                          [pc |-> "reply_ask", user_id |-> u, is_allowed |-> TRUE,
                           wait_time |-> 0]]
              /\ user_last_request' = Record(user_last_request, u, time_now)
              /\ admitted' = [admitted EXCEPT ![u] = Append(@, time_now)]
  /\ UNCHANGED <<time_now, nameVars, jobVars, bridgeVars, fsVars, envVars>>

\* Lines 57, 63-66 and 80-83: the awaited reply_text is done and the coroutine
\* ends.
Reply(m) ==
  /\ msg[m].pc \in {"reply_invalid", "reply_wait", "reply_ask"}
  /\ loopState = "running"
  /\ msg' = [msg EXCEPT ![m] = [NoCall EXCEPT !.pc = "done"]]
  /\ UNCHANGED <<user_last_request, time_now, admitted, nameVars, jobVars, bridgeVars,
                 fsVars, envVars>>

\* time.time() advances by one tick.
TimePasses ==
  /\ time_now < RateStart + MaxSeconds * TicksPerSecond
  /\ time_now' = time_now + 1
  /\ UNCHANGED <<user_last_request, msg, admitted, nameVars, jobVars, bridgeVars,
                 fsVars, envVars>>

\* ---------------------------------------------------------------- Next
\* One step of job j: its handler coroutine or its worker thread.
JobStep(j) ==
  \/ HandleFormatSelection(j)
  \/ WorkerStart(j)
  \/ \E n \in Names, cl \in 0..MaxTotal : HeadOk(j, n, cl)
  \/ \E n \in Names : HeadFails(j, n)
  \/ HeadBadLength(j)
  \/ \E st \in Statuses, cl \in 0..MaxTotal : GetResponse(j, st, cl)
  \/ \E e \in TransferErrors : TransferFails(j, e)
  \/ GetBadLength(j)
  \/ OpenFile(j)
  \/ WriteFails(j)
  \/ \E n \in 1..MaxChunk : RecvChunk(j, n)
  \/ StreamEnd(j)
  \/ CbThrottle(j)
  \/ CbCheck(j)
  \/ CbSchedule(j)
  \/ CbReturn(j)
  \/ Return(j)
  \/ ExceptExists(j)
  \/ ExceptRemove(j)
  \/ ExceptRaise(j)
  \/ GetSize(j)
  \/ EditTooLarge(j)
  \/ EditComplete(j)
  \/ Upload(j)
  \/ Deliver(j)
  \/ TelegramFails(j)
  \/ HandlerExcept(j)
  \/ FinallyExists(j)
  \/ FinallyRemove(j)
  \/ FinallyPop(j)

\* One step of an edit_status coroutine.
EditStep ==
  \/ EditStart
  \/ \E e \in inflight : EditApply(e)
  \/ \E e \in inflight : EditFails(e)

\* One step of the clock or of main().
MainStep ==
  \/ Tick
  \/ LoopStop
  \/ LoopClose
  \/ CleanupExecutor
  \/ ShutdownReturns

\* The program: every job, the event loop and main().
Next == (\E j \in Jobs : JobStep(j)) \/ EditStep \/ MainStep
Spec == Init /\ [][Next]_vars

\* One request from its arrival to its end, through the bot's shutdown.
NextOne == JobStep(1) \/ EditStep \/ MainStep
SpecOne == Init /\ [][NextOne]_vars

\* One step of job j when no response declares a Content-Length: total_size
\* stays 0 and progress_callback is never called.
PoolStep(j) ==
  \/ HandleFormatSelection(j)
  \/ WorkerStart(j)
  \/ \E n \in Names : HeadOk(j, n, 0)
  \/ \E n \in Names : HeadFails(j, n)
  \/ HeadBadLength(j)
  \/ \E st \in Statuses : GetResponse(j, st, 0)
  \/ \E e \in TransferErrors : TransferFails(j, e)
  \/ GetBadLength(j)
  \/ OpenFile(j)
  \/ WriteFails(j)
  \/ \E n \in 1..MaxChunk : RecvChunk(j, n)
  \/ StreamEnd(j)
  \/ Return(j)
  \/ ExceptExists(j)
  \/ ExceptRemove(j)
  \/ ExceptRaise(j)
  \/ GetSize(j)
  \/ EditTooLarge(j)
  \/ EditComplete(j)
  \/ Upload(j)
  \/ Deliver(j)
  \/ TelegramFails(j)
  \/ HandlerExcept(j)
  \/ FinallyExists(j)
  \/ FinallyRemove(j)
  \/ FinallyPop(j)

\* All requests sharing the pool and the temporary directory while the bot
\* is polling, for downloads of undeclared length.
NextPool == \E j \in Jobs : PoolStep(j)
SpecPool == Init /\ [][NextPool]_vars

\* The requests submitted when more of them arrive than the pool has workers.
PoolJobs == 1..NumPoolJobs

InitExec == DownloadInit(PoolJobs) /\ RateInit /\ NameInit /\ ResolveInit

\* One step of job j up to the end of its download_file, for a URL whose
\* filename is the same for every job and whose length is never declared.
ExecStep(j) ==
  \/ HandleFormatSelection(j)
  \/ WorkerStart(j)
  \/ HeadFails(j, 1)
  \/ HeadBadLength(j)
  \/ GetResponse(j, 200, 0)
  \/ OpenFile(j)
  \/ StreamEnd(j)
  \/ Return(j)

\* The executor under more requests than workers, through the bot's shutdown.
NextExec ==
  \/ \E j \in PoolJobs : ExecStep(j)
  \/ LoopStop
  \/ LoopClose
  \/ CleanupExecutor
  \/ ShutdownReturns
SpecExec == InitExec /\ [][NextExec]_vars

\* The messages of the users, the rate limiter and the clock.
NextRate ==
  \/ \E m \in Msgs, u \in Users, valid \in BOOLEAN : HandleMessage(m, u, valid)
  \/ \E m \in Msgs : Reply(m)
  \/ TimePasses
SpecRate == Init /\ [][NextRate]_vars

\* sanitize_filename on every string up to MaxInput characters.
InitName ==
  /\ DownloadInit(Jobs)
  /\ RateInit
  /\ filename \in Inputs
  /\ sanitized = <<>>
  /\ ResolveInit
NextName == Sanitize \/ SanitizeAgain
SpecName == InitName /\ [][NextName]_vars

\* URLs: what can follow the scheme and host, with the question mark.
Urls == UNION {[1..n -> Chars \cup {"?"}] : n \in 0..MaxUrl}

\* download_file's filename for every URL up to MaxUrl characters when the
\* probe fails or names no file, and for every capture up to MaxInput
\* characters when it names one (with a URL that has a name and one that has
\* none).
InitResolve ==
  /\ DownloadInit(Jobs)
  /\ RateInit
  /\ NameInit
  /\ resolved = <<>>
  /\ joined = <<>>
  /\ \/ /\ url \in Urls
        /\ probe \in {[kind |-> k, capture |-> <<>>] : k \in {"failed", "absent"}}
     \/ /\ url \in {<<>>, <<"a">>}
        /\ probe \in {[kind |-> "named", capture |-> c] : c \in Inputs}
NextResolve == ResolveFilename \/ JoinPath
SpecResolve == InitResolve /\ [][NextResolve]_vars

\* =================================================================== claims
Last(q) == q[Len(q)]
StrictlyIncreasing(q) == \A i \in 1..Len(q) - 1 : q[i] < q[i + 1]

\* download_file has left its streaming loop and final callback without an
\* exception: it is about to return local_path or has returned it.
Completed(j) == pc[j] \in {"return", "returned"} \/ local_path[j] # None

\* C1: for a job whose total size is known and positive, once download_file has
\* completed, the percentages it passed to progress_callback are strictly
\* increasing and the last of them is exactly 100, whatever chunks the body
\* came in.
C1_ProgressEndsAt100 ==
  \A j \in Jobs :
    Completed(j) /\ total_size[j] > 0 =>
      /\ StrictlyIncreasing(reported[j])
      /\ reported[j] # <<>>
      /\ Last(reported[j]) = 100

\* C2: every percentage download_file passes to progress_callback lies in
\* 0..100, also when the body is longer or shorter than the declared length.
C2_PercentInRange ==
  \A j \in Jobs : \A i \in 1..Len(reported[j]) : reported[j][i] \in 0..100

\* The failures of the main transfer that download_file catches.
MainTransferFailures == TransferErrors \cup {"HTTPError", "OSError"}

\* download_file of job j returns to its caller by raising in this step.
ExitsByRaising(j) == pc[j] \in {"except_remove", "except_raise"} /\ pc'[j] = "raised"

\* C3: when download_file exits by raising after a failure of the main
\* transfer, no file exists at the job's local path at the moment it returns.
C3_NoFileWhenRaising ==
  [][\A j \in Jobs :
       ExitsByRaising(j) /\ exc[j] \in MainTransferFailures =>
         path'[name[j]] = NoFile]_vars

\* C4: when download_file returns a local path, a file exists at that path and
\* holds exactly the chunks this job received, in order, in every interleaving
\* with the other jobs of the pool.
C4_ReturnedFileIsBody ==
  [][\A j \in Jobs :
       pc[j] = "return" /\ pc'[j] = "returned" =>
         /\ path'[name[j]] # NoFile
         /\ inode'[path'[name[j]]] = BodyOf(j)]_vars

\* Job k has opened its file and its handler has not read it yet.
HoldsArtifact(k) ==
  pc[k] \in {"stream", "return", "returned", "h_toolarge", "h_complete", "upload"}

\* C5: the cleanup a failing job performs in download_file's except clause
\* never changes the file at the path of another job that is downloading or
\* waiting to upload.
C5_FailureIsolated ==
  [][\A i \in Jobs :
       pc[i] = "except_remove" /\ pc'[i] = "except_raise" =>
         \A k \in Jobs \ {i} :
            HoldsArtifact(k) => path'[name[k]] = path[name[k]]]_vars

\* C6: when handle_format_selection finishes a job, on whichever path, no file
\* remains at the job's local path.
C6_NoFileWhenFinished ==
  [][\A j \in Jobs :
       pc[j] = "finally_pop" /\ pc'[j] = "done" /\ name[j] # NoFile =>
         path'[name[j]] = NoFile]_vars

\* The event the running callback of job j was called with.
CurrentEvent(j) == Event(current_percent[j], cb_time[j])
InSeq(e, q) == \E i \in 1..Len(q) : q[i] = e
Before(j, q) == SelectSeq(q, LAMBDA e : e.percent # current_percent[j])

\* C7 as stated: at the end of a callback, the event was forwarded (its edit was
\* scheduled and the last-forwarded time is its time) exactly when no event of
\* the job was forwarded before, or MIN_EDIT_DELAY has passed since the last
\* forwarded one, or its percent is 100.  Stated for the events of the
\* callback's documented range, percent <= 100.
C7_ForwardedExactlyWhen ==
  \A j \in Jobs :
    pc[j] = "cb_return" /\ current_percent[j] <= 100 =>
      LET prev == Before(j, scheduled[j])
          fwd == InSeq(CurrentEvent(j), scheduled[j])
      IN  /\ fwd <=> \/ prev = <<>>
                     \/ cb_time[j] - Last(prev).time >= MIN_EDIT_DELAY
                     \/ current_percent[j] = 100
          /\ fwd => last_update_time[j] = cb_time[j]

\* C7 amended: once a callback has applied the throttle, its event has passed
\* (the job's last-update time is its time) exactly when no event of the job
\* passed before, or MIN_EDIT_DELAY has passed since the last one that did, or
\* its percent is at least 100; its edit is scheduled only if it passed, and a
\* callback returns with a passed event unscheduled only when the loop is not
\* running.  Every edit in the loop's hands or applied is one that was
\* scheduled: a suppressed event is never forwarded later.
C7_ThrottleRule ==
  /\ \A j \in Jobs :
       pc[j] \in {"cb_check", "cb_sched", "cb_return"} =>
         LET prev == Before(j, passed[j])
             pass == InSeq(CurrentEvent(j), passed[j])
             fwd == InSeq(CurrentEvent(j), scheduled[j])
         IN  /\ pass <=> \/ prev = <<>>
                         \/ cb_time[j] - Last(prev).time >= MIN_EDIT_DELAY
                         \/ current_percent[j] >= 100
             /\ pass => last_update_time[j] = cb_time[j]
             /\ fwd => pass
             /\ pc[j] = "cb_return" /\ pass /\ ~fwd => loopState # "running"
  /\ \A j \in Jobs :
       /\ \A i \in 1..Len(scheduled[j]) : InSeq(scheduled[j][i], passed[j])
       /\ \A i \in 1..Len(ready) :
            ready[i][1] = j => \E e \in 1..Len(scheduled[j]) :
                                  scheduled[j][e].percent = ready[i][2]
       /\ \A x \in inflight :
            x[1] = j => \E e \in 1..Len(scheduled[j]) :
                           scheduled[j][e].percent = x[2]
       /\ \A i \in 1..Len(delivered[j]) :
            delivered[j][i].kind = "progress" =>
              \E e \in 1..Len(scheduled[j]) :
                 scheduled[j][e].percent = delivered[j][i].percent

\* A callback ends with its event suppressed, after an earlier event of the
\* job was forwarded less than MIN_EDIT_DELAY before.
C7_Witness ==
  \E j \in Jobs :
    /\ pc[j] = "cb_return"
    /\ scheduled[j] # <<>>
    /\ ~InSeq(CurrentEvent(j), passed[j])
    /\ cb_time[j] - Last(passed[j]).time < MIN_EDIT_DELAY

\* C8: no progress edit takes effect on the status message after the job's
\* result ("Download complete" or the error reply) has taken effect.
C8_ResultAfterProgress ==
  \A j \in Jobs : \A i, k \in 1..Len(delivered[j]) :
    i < k /\ delivered[j][i].kind \in {"complete", "error"} =>
      delivered[j][k].kind # "progress"

\* C9: the progress edits of one job take effect on the status message in
\* non-decreasing percent order.  Stated for the edits of percentages up to
\* 100, the range the callback documents.
C9_EditsInPercentOrder ==
  \A j \in Jobs : \A i, k \in 1..Len(delivered[j]) :
    /\ i < k
    /\ delivered[j][i].kind = "progress"
    /\ delivered[j][k].kind = "progress"
    /\ delivered[j][i].percent <= 100
    /\ delivered[j][k].percent <= 100
    => delivered[j][i].percent <= delivered[j][k].percent

\* C10: a step of progress_callback taken while the event loop is not running
\* (stopped or closed) hands nothing to the loop and does not raise: the
\* callback goes on to return normally.
C10_DroppedWhenLoopDown ==
  [][\A j \in Jobs :
       /\ pc[j] \in {"cb_throttle", "cb_check", "cb_sched"}
       /\ loopState # "running"
       /\ pc'[j] # pc[j]
       => /\ pc'[j] \in {"cb_check", "cb_return"}
          /\ ready' = ready]_vars

\* C11: at every moment at most max_workers = 3 download_file executions are
\* in progress; a submitted job is queued first, and a queued job is started
\* only in a step before which fewer than max_workers executions were in
\* progress, so a job submitted while all workers are busy waits.
C11_AtMostMaxWorkers ==
  /\ [](Cardinality(Busy) <= max_workers)
  /\ [][\A j \in DOMAIN pc :
          /\ pc[j] = "idle" /\ pc'[j] # "idle" => pc'[j] = "queued"
          /\ pc[j] = "queued" /\ pc'[j] # "queued" =>
               pc'[j] = "head" /\ Cardinality(Busy) < max_workers]_vars

\* All workers are busy and a submitted job is waiting.
C11_Witness ==
  /\ Cardinality(Busy) = max_workers
  /\ \E j \in DOMAIN pc : pc[j] = "queued"

\* download_file of job j has ended, by returning or by raising.
Terminal(j) == pc[j] # "queued" /\ pc[j] \notin WorkerStates

\* C12: once cleanup_executor has called shutdown, no new job is submitted;
\* shutdown has returned only when every submitted job is terminal (returned
\* or raised); and no submitted job is cancelled: a queued job leaves the queue
\* only by being started, and a started job leaves its worker only by
\* returning or raising.
C12_GracefulShutdown ==
  /\ [](executorState = "drained" => \A j \in DOMAIN pc : Terminal(j))
  /\ [][executorState # "open" =>
          \A j \in DOMAIN pc :
            /\ pc[j] = "idle" => pc'[j] = "idle"
            /\ pc[j] = "queued" => pc'[j] \in {"queued", "head"}
            /\ pc[j] \in WorkerStates =>
                 pc'[j] \in WorkerStates \cup {"returned", "raised"}]_vars

\* shutdown has been called and is waiting: one job is still queued, another
\* is running, and others have ended by returning and by raising.
C12_Witness ==
  /\ executorState = "shutdown"
  /\ \E j, k \in DOMAIN pc : pc[j] = "queued" /\ pc[k] \in WorkerStates
  /\ \E j, k \in DOMAIN pc : pc[j] = "returned" /\ pc[k] = "raised"

\* handle_message runs check_rate_limit for message m in this step.
Checks(m) == msg[m].pc = "new" /\ msg'[m].pc \in {"reply_wait", "reply_ask"}

\* C13: a check_rate_limit call made less than REQUEST_COOLDOWN after the
\* identity's last admitted call returns (False, wait) with wait > 0, and a
\* call made at or after the cooldown has elapsed returns (True, 0).
C13_CooldownResult ==
  [][\A m \in Msgs :
       Checks(m) /\ LastAdmitted(msg'[m].user_id) # 0 =>
         IF time_now - LastAdmitted(msg'[m].user_id) < CooldownTicks
           THEN ~msg'[m].is_allowed /\ msg'[m].wait_time > 0
           ELSE msg'[m].is_allowed /\ msg'[m].wait_time = 0]_vars

\* C14: in every interleaving of the handlers of one identity's messages, no
\* two admitted requests of the identity are less than REQUEST_COOLDOWN apart.
C14_NoTwoAdmittedWithinCooldown ==
  \A u \in Users : \A i, k \in 1..Len(admitted[u]) :
    i < k => admitted[u][k] - admitted[u][i] >= CooldownTicks

\* Two handlers of one identity are in progress at once, within the cooldown:
\* the first was admitted and awaits its reply, the second was rejected.
C14_Witness ==
  \E m, k \in Msgs :
    /\ msg[m].pc = "reply_ask"
    /\ msg[k].pc = "reply_wait"
    /\ msg[k].user_id = msg[m].user_id
    /\ time_now - LastAdmitted(msg[m].user_id) < CooldownTicks

\* C15: a call of check_rate_limit for identity u changes no other identity's
\* stored time, changes nothing in the map unless it admits the request, and
\* its result is determined by the time and u's own admitted requests alone.
C15_OnlyOwnTimestamp ==
  [][\A m \in Msgs :
       Checks(m) =>
         LET u == msg'[m].user_id
         IN  /\ \A v \in Users \ {u} : user_last_request'[v] = user_last_request[v]
             /\ ~msg'[m].is_allowed => user_last_request' = user_last_request
             /\ msg'[m].is_allowed => user_last_request'[u] = time_now
             /\ msg'[m].is_allowed <=> time_now - LastAdmitted(u) >= CooldownTicks]_vars

\* A request of one identity was rejected after another identity's request
\* had been admitted since the first identity's own admitted request.
C15_Witness ==
  \E m \in Msgs, v \in Users :
    /\ msg[m].pc = "reply_wait"
    /\ v # msg[m].user_id
    /\ LastAdmitted(v) > LastAdmitted(msg[m].user_id)
    /\ user_last_request[v] = LastAdmitted(v)

\* A 2xx status.
Success(status) == status >= 200 /\ status < 300

\* C16: when the main GET ends with a status that is not 2xx, download_file
\* takes the HTTP error path (it raises ValueError with the status and reason
\* after its cleanup) and writes nothing to disk.
C16_NonSuccessFails ==
  [][\A j \in Jobs : \A st \in Statuses, cl \in 0..MaxTotal :
       ~Success(st) /\ GetResponse(j, st, cl) =>
         /\ pc'[j] = "except_exists"
         /\ exc'[j] = "HTTPError"
         /\ fsVars' = fsVars]_vars

\* C17: a failure of the HEAD probe of whatever kind (a transport failure or
\* timeout, or a Content-Length that is not a number) does not end the job:
\* download_file goes on to the main GET with the URL-derived filename and a
\* total size of 0.
C17_ProbeFailureNotFatal ==
  [][\A j \in Jobs :
       HeadBadLength(j) \/ (\E n \in Names : HeadFails(j, n)) =>
         /\ pc'[j] = "get"
         /\ name'[j] \in Names
         /\ total_size'[j] = 0]_vars

\* download_file of job j is past the main response, so total_size is final.
SizeSettled(j) == pc[j] \notin {"idle", "queued", "head", "get"}

\* C18: a job whose total size is 0 after the probe and the main response
\* never calls progress_callback, however many chunks it receives, and makes
\* no final callback with 100.
C18_NoProgressWhenSizeUnknown ==
  \A j \in Jobs :
    SizeSettled(j) /\ total_size[j] = 0 =>
      /\ reported[j] = <<>>
      /\ pc[j] \notin {"cb_throttle", "cb_check", "cb_sched", "cb_return"}

\* download_file has returned after receiving several chunks of a body whose
\* size was never declared.
C18_Witness ==
  \E j \in Jobs :
    /\ pc[j] = "returned"
    /\ total_size[j] = 0
    /\ received[j] = MaxBody

\* C19: sanitize_filename is idempotent: applied to its own result it returns
\* that result, also for inputs that go through the truncation.
C19_Idempotent ==
  Len(sanitized) = 2 => sanitized[2] = sanitized[1]

\* C20: the result of sanitize_filename is never empty and never longer than
\* the limit, whatever the lengths of the base name and of the extension.
C20_NonEmptyWithinLimit ==
  Len(sanitized) >= 1 =>
    /\ sanitized[1] # <<>>
    /\ Len(sanitized[1]) <= FILENAME_MAX

\* C21: for every URL and every probe response, the filename download_file
\* resolves contains no '/' and no '\', and is neither '.' nor '..'; the local
\* path joined from it names a direct child of the temporary directory.
C21_LocalPathInsideTempDir ==
  /\ resolved # <<>> =>
       /\ \A i \in 1..Len(resolved[1]) : resolved[1][i] \notin {"/", "\\"}
       /\ resolved[1] \notin {<<>>, <<".">>, <<".", ".">>}
  /\ joined # <<>> => joined[1] = Append(TempDir, resolved[1])

\* The local path was joined for a Content-Disposition filename that holds
\* a '..' component between separators of both kinds.
C21_Witness ==
  /\ joined # <<>>
  /\ probe.kind = "named"
  /\ \E i \in 1..Len(probe.capture) - 3 :
       /\ probe.capture[i] \in {"/", "\\"}
       /\ probe.capture[i + 1] = "."
       /\ probe.capture[i + 2] = "."
       /\ probe.capture[i + 3] \in {"/", "\\"} \ {probe.capture[i]}

====
